---- MODULE Spec2Model ----
(***************************************************************************)
(* The checkers rules engine of cogs/games/checkers.py: the coordinate     *)
(* geometry, the move and capture tables, the legal-move generator with    *)
(* its forced-capture chain search, and Board.move.                        *)
(*                                                                         *)
(* A move string is modelled as the sequence of its characters; a board is *)
(* the 64-cell list, indexed 0..63 as in the source.                       *)
(***************************************************************************)
EXTENDS Integers, Sequences, FiniteSets, TLC

VARIABLES board, turn, half_moves, last, successes, observed, world, probe, session

vars == <<board, turn, half_moves, last, successes, observed, world, probe, session>>

(***************************************************************************)
(* Bounds of the model.                                                    *)
(***************************************************************************)
\* Board.move succeeds at most MaxPly times on a new Board.
MaxPly == 4
\* A constructed position holds one piece of the side to move and at most
\* MaxOpp pieces of the other side, on columns 0..MaxCol.
MaxOpp == 3
MaxCol == 3
\* A constructed position is one that PosRound moves of each side led to.
PosRound == 20
\* The read-only methods are called on the Boards that at most MaxQueryPly
\* moves from a new Board lead to.
MaxQueryPly == 3
\* At most MaxGames Boards are alive at once, and Board.move succeeds at
\* most MaxGamePly times on all of them together.
MaxGames == 2
MaxGamePly == 3
\* The conversions and the tables are tried on the indices
\* -MaxIndex..MaxIndex.
MaxIndex == 72
MaxTablePly == 2
MaxSessRow == 3
MaxSessOpp == 1
MaxSessPly == 2
MaxRing == 4

(***************************************************************************)
(* Constants of the source.                                                *)
(***************************************************************************)
BLACK == FALSE
WHITE == TRUE
BK_PIECE == "b"
WH_PIECE == "w"
BK_KING == "B"
WH_KING == "W"
EMPTY == " "

\* PIECES = 'bw', indexed by the turn flag (False = 0, True = 1).
PIECES(t) == IF t THEN WH_PIECE ELSE BK_PIECE

\* str.isupper
_is_king(p) == p \in {BK_KING, WH_KING}

\* str.lower
lower(p) == CASE p = BK_KING -> BK_PIECE
              [] p = WH_KING -> WH_PIECE
              [] OTHER -> p

\* str.upper
upper(p) == CASE p = BK_PIECE -> BK_KING
              [] p = WH_PIECE -> WH_KING
              [] OTHER -> p

X == <<"a", "b", "c", "d", "e", "f", "g", "h">>
Y == <<"8", "7", "6", "5", "4", "3", "2", "1">>

\* 7 * flag, with a bool used as an int.
Seven(flag) == IF flag THEN 7 ELSE 0

(***************************************************************************)
(* Sequence helpers (itertools / more_itertools).                          *)
(***************************************************************************)
RECURSIVE Flatten(_)
\* itertools.chain.from_iterable
Flatten(ss) == IF ss = <<>> THEN <<>> ELSE Head(ss) \o Flatten(Tail(ss))

\* x in iterable
InSeq(x, s) == \E k \in 1..Len(s) : s[k] = x

Range(s) == {s[k] : k \in 1..Len(s)}

\* more_itertools.sliced(move, 2): the last slice is shorter when the
\* length is odd.
sliced2(s) ==
  [k \in 1..((Len(s) + 1) \div 2) |->
     SubSeq(s, 2 * k - 1, IF 2 * k <= Len(s) THEN 2 * k ELSE Len(s))]

(***************************************************************************)
(* Geometry.                                                               *)
(***************************************************************************)
_to_i(x, y) == y * 8 + x

\* Python's seq[k]: negative indices count from the end, anything else out
\* of range raises IndexError.
PyIndex(s, k) ==
  IF k >= 0 /\ k < Len(s) THEN [raised |-> FALSE, value |-> s[k + 1]]
  ELSE IF k < 0 /\ k >= -Len(s) THEN [raised |-> FALSE, value |-> s[Len(s) + k + 1]]
  ELSE [raised |-> TRUE, value |-> "IndexError"]

\* Mutant: the quotient and the remainder unpacked in the wrong order
\* (x, y = divmod(i, 8)).
_i_to_xy_unpacked_xy(i) ==
  LET x == i \div 8
      y == i % 8
      cx == PyIndex(X, x)
      cy == PyIndex(Y, y)
  IN IF cx.raised \/ cy.raised
       THEN [raised |-> TRUE, value |-> <<>>]
       ELSE [raised |-> FALSE, value |-> <<cx.value, cy.value>>]

\* divmod(i, 8) floors, as \div and % do.
_i_to_xy(i) ==
  LET y == i \div 8
      x == i % 8
      cx == PyIndex(X, x)
      cy == PyIndex(Y, y)
  IN IF cx.raised \/ cy.raised
       THEN [raised |-> TRUE, value |-> <<>>]
       ELSE [raised |-> FALSE, value |-> <<cx.value, cy.value>>]

\* str.index: the first position of c, ValueError when absent.
StrIndex(s, c) ==
  IF \E k \in 1..Len(s) : s[k] = c
    THEN [raised |-> FALSE, value |-> (CHOOSE k \in 1..Len(s) : s[k] = c /\ \A j \in 1..(k - 1) : s[j] # c) - 1]
    ELSE [raised |-> TRUE, value |-> -1]

\* Mutant: the two characters unpacked in the wrong order (y, x = xy).
_xy_to_i_swapped(xy) ==
  IF Len(xy) # 2 THEN [raised |-> TRUE, value |-> -1]
  ELSE LET ix == StrIndex(X, xy[2])
           iy == StrIndex(Y, xy[1])
       IN IF ix.raised \/ iy.raised
            THEN [raised |-> TRUE, value |-> -1]
            ELSE [raised |-> FALSE, value |-> _to_i(ix.value, iy.value)]

\* x, y = xy raises unless xy has exactly two characters.
_xy_to_i(xy) ==
  IF Len(xy) # 2 THEN [raised |-> TRUE, value |-> -1]
  ELSE LET ix == StrIndex(X, xy[1])
           iy == StrIndex(Y, xy[2])
       IN IF ix.raised \/ iy.raised
            THEN [raised |-> TRUE, value |-> -1]
            ELSE [raised |-> FALSE, value |-> _to_i(ix.value, iy.value)]

\* Mutant: the upper bounds are inclusive.
_in_range_inclusive(x, y) == 0 <= x /\ x <= 8 /\ 0 <= y /\ y <= 8

_in_range(x, y) == 0 <= x /\ x < 8 /\ 0 <= y /\ y < 8

\* ''.join(map(_i_to_xy, s)) for squares on the board.
JoinSquares(s) == Flatten([k \in 1..Len(s) |-> _i_to_xy(s[k]).value])

(***************************************************************************)
(* Move and capture tables.                                                *)
(***************************************************************************)
\* range(start, end + direction, direction)
PyRange(start, end, direction) ==
  IF direction > 0 THEN {y \in start..(end + direction - 1) : (y - start) % direction = 0}
  ELSE {y \in (end + direction + 1)..start : (start - y) % (-direction) = 0}

_get_checkers(start, end, direction) ==
  {<<x, y>> \in (0..7) \X PyRange(start, end, direction) : (x + y) % 2 = 1}

\* Mutant: one of the two directions is straight ahead.
Dxs_straight == <<0, 1>>

\* Mutant: the left direction is gone through twice.
Dxs_left_twice == <<-1, -1>>

\* lines 46 and 51: for dx in (-1, 1)
Dxs == <<-1, 1>>

\* Mutant: the steps of a man lead away from the other side.
_moves_backward(x, y, dy) ==
  LET ok == SelectSeq(Dxs, LAMBDA dx : _in_range(x + dx, y - dy))
  IN [k \in 1..Len(ok) |-> _to_i(x + ok[k], y - dy)]

_moves(x, y, dy) ==
  LET ok == SelectSeq(Dxs, LAMBDA dx : _in_range(x + dx, y + dy))
  IN [k \in 1..Len(ok) |-> _to_i(x + ok[k], y + dy)]

\* Mutant: the jumps of a man lead away from the other side.
_captures_backward(x, y, dy) ==
  LET ok == SelectSeq(Dxs, LAMBDA dx : _in_range(x + dx, y - dy) /\ _in_range(x + dx * 2, y - dy * 2))
  IN [k \in 1..Len(ok) |-> <<_to_i(x + ok[k], y - dy), _to_i(x + ok[k] * 2, y - dy * 2)>>]

_captures(x, y, dy) ==
  LET ok == SelectSeq(Dxs, LAMBDA dx : _in_range(x + dx, y + dy) /\ _in_range(x + dx * 2, y + dy * 2))
  IN [k \in 1..Len(ok) |-> <<_to_i(x + ok[k], y + dy), _to_i(x + ok[k] * 2, y + dy * 2)>>]

\* f(x, y, dy) for the function f that _make_dict is given, named by its
\* name.
Apply(f, x, y, dy) == IF f = "_moves" THEN _moves(x, y, dy) ELSE _captures(x, y, dy)

\* One man's table: {_to_i(x, y): f(x, y, dy) for x, y in _get_checkers(...)}
ManTable(f, start, end, direction) ==
  LET cs == _get_checkers(start, end, direction)
      keys == {_to_i(c[1], c[2]) : c \in cs}
  IN [k \in keys |-> Apply(f, k % 8, k \div 8, direction)]

\* dict.get(k, [])
Get(d, k) == IF k \in DOMAIN d THEN d[k] ELSE <<>>

\* Mutant: the king entry takes the white man's entry twice.
_make_dict_white_twice(f) ==
  LET bk == ManTable(f, 0, 8, 1)
      wh == ManTable(f, 8, 0, -1)
      king == [k \in (DOMAIN bk) \cup (DOMAIN wh) |-> Get(wh, k) \o Get(wh, k)]
  IN [p \in {BK_PIECE, WH_PIECE, BK_KING, WH_KING} |->
        CASE p = BK_PIECE -> bk
          [] p = WH_PIECE -> wh
          [] OTHER -> king]

\* lines 55-64
_make_dict(f) ==
  LET bk == ManTable(f, 0, 8, 1)
      wh == ManTable(f, 8, 0, -1)
      king == [k \in (DOMAIN bk) \cup (DOMAIN wh) |-> Get(wh, k) \o Get(bk, k)]
  IN [p \in {BK_PIECE, WH_PIECE, BK_KING, WH_KING} |->
        CASE p = BK_PIECE -> bk
          [] p = WH_PIECE -> wh
          [] OTHER -> king]

_MOVES == _make_dict("_moves")
_CAPTURES == _make_dict("_captures")

(***************************************************************************)
(* Board: the legal-move generator.                                        *)
(***************************************************************************)
Squares == 0..63

Indices == [k \in 1..64 |-> k - 1]

\* [i for i, v in enumerate(self._board) if v.lower() == colour]
_find_all_pieces(b, colour) == SelectSeq(Indices, LAMBDA i : lower(b[i]) = colour)

\* line 135: the square jumped over must hold a piece of the other side.
\* Mutant: any piece can be jumped over.
OverIsOpponent_any_piece(b, t, jump_over) == b[jump_over] # EMPTY

OverIsOpponent(b, t, jump_over) == lower(b[jump_over]) = PIECES(~t)

\* line 138: no loops, a piece is captured once in a chain.
AlreadyCaptured(jump_over, captured) == jump_over \in captured

\* Mutant: the landing square is not looked at.
LandingEmpty_unchecked(b, jump_end) == TRUE

\* line 142: the landing square must be empty.
LandingEmpty(b, jump_end) == b[jump_end] = EMPTY

\* Mutant: the test names the row where a man of the side to move is
\* crowned.
ChainCutoff_promotion_row(is_king, square, t) == ~is_king /\ square \div 8 = Seven(~t)

\* line 146: the test that ends the chain after this jump.
ChainCutoff(is_king, square, t) == ~is_king /\ square \div 8 = Seven(t)

\* Mutant: the cutoff is tested before the no-loops test.
JumpVerdict_cutoff_first(b, t, is_king, square, captured, jump_over, jump_end) ==
  IF ~OverIsOpponent(b, t, jump_over) THEN "skip"
  ELSE IF ~LandingEmpty(b, jump_end) THEN "skip"
  ELSE IF ChainCutoff(is_king, square, t) THEN "last"
  ELSE IF AlreadyCaptured(jump_over, captured) THEN "skip"
  ELSE "chain"

\* lines 135-157: what the loop body does with one pair of the capture
\* table: "skip" (continue), "last" (yield the jump and stop there) or
\* "chain" (look for continuations from the landing square).
JumpVerdict(b, t, is_king, square, captured, jump_over, jump_end) ==
  IF ~OverIsOpponent(b, t, jump_over) THEN "skip"
  ELSE IF AlreadyCaptured(jump_over, captured) THEN "skip"
  ELSE IF ~LandingEmpty(b, jump_end) THEN "skip"
  ELSE IF ChainCutoff(is_king, square, t) THEN "last"
  ELSE "chain"

RECURSIVE jump_helper(_, _, _, _, _)
\* The generator jump_helper as the sequence of the square tuples it yields.
jump_helper(b, t, captures, square, captured) ==
  LET is_king == _is_king(b[square])
      caps == captures[square]
      Yielded(k) ==
        LET jump_over == caps[k][1]
            jump_end == caps[k][2]
            verdict == JumpVerdict(b, t, is_king, square, captured, jump_over, jump_end)
        IN IF verdict = "skip" THEN <<>>
           ELSE IF verdict = "last" THEN << <<square, jump_end>> >>
           ELSE LET squares == jump_helper(b, t, captures, jump_end, captured \cup {jump_over})
                IN IF squares # <<>>
                     THEN [j \in 1..Len(squares) |-> <<square>> \o squares[j]]
                     ELSE << <<square, jump_end>> >>
  IN Flatten([k \in 1..Len(caps) |-> Yielded(k)])

\* Mutant: every piece searches with the king's capture table.
jump_chains_king_table(b, t, square) ==
  jump_helper(b, t, _CAPTURES[upper(b[square])], square, {})

\* Mutant: the search runs on a board with the piece lifted off its
\* origin square.
jump_chains_origin_lifted(b, t, square) ==
  jump_helper([b EXCEPT ![square] = EMPTY], t, _CAPTURES[b[square]], square, {})

\* The square tuples behind jumps_from(square).
jump_chains(b, t, square) == jump_helper(b, t, _CAPTURES[b[square]], square, {})

jumps_from(b, t, square) ==
  LET chains == jump_chains(b, t, square)
  IN [k \in 1..Len(chains) |-> JoinSquares(chains[k])]

jumps(b, t) ==
  LET owner == PIECES(t)
      pieces == _find_all_pieces(b, owner)
  IN Flatten([k \in 1..Len(pieces) |-> jumps_from(b, t, pieces[k])])

\* Mutant: a step is generated whatever stands on its destination.
simple_moves_unchecked(b, t) ==
  LET pieces == _find_all_pieces(b, PIECES(t))
      From(i) ==
        LET ends == _MOVES[b[i]][i]
        IN [k \in 1..Len(ends) |-> _i_to_xy(i).value \o _i_to_xy(ends[k]).value]
  IN Flatten([k \in 1..Len(pieces) |-> From(pieces[k])])

\* lines 116-120: the simple moves, generated when no jump exists.
simple_moves(b, t) ==
  LET pieces == _find_all_pieces(b, PIECES(t))
      From(i) ==
        LET ends == SelectSeq(_MOVES[b[i]][i], LAMBDA end : b[end] = EMPTY)
        IN [k \in 1..Len(ends) |-> _i_to_xy(i).value \o _i_to_xy(ends[k]).value]
  IN Flatten([k \in 1..Len(pieces) |-> From(pieces[k])])

\* Mutant: the simple moves are generated after the jumps, not instead.
legal_moves_mixed(b, t) == jumps(b, t) \o simple_moves(b, t)

legal_moves(b, t) ==
  LET js == jumps(b, t)
  IN IF js # <<>> THEN js ELSE simple_moves(b, t)

\* line 163: next(iterator, None), the first value of the generator or
\* None when it yields nothing.
PyNext(s) == IF s = <<>> THEN [none |-> TRUE] ELSE [none |-> FALSE, value |-> s[1]]

\* Mutant: the game is over when no jump is generated.
is_game_over_jumps_only(b, t) == PyNext(jumps(b, t)).none

\* lines 161-163
is_game_over(b, t) == PyNext(legal_moves(b, t)).none

(***************************************************************************)
(* Board.move, as the outcome of one call: whether it raised, and the      *)
(* board, turn and ply counter it leaves.                                  *)
(***************************************************************************)
\* Mutant: a move is accepted when a generated move starts with it.
IsLegal_prefix(ms, move) ==
  \E k \in 1..Len(ms) : Len(move) <= Len(ms[k]) /\ SubSeq(ms[k], 1, Len(move)) = move

\* line 167: the membership test that guards the call, against the moves
\* the generator yields.
IsLegal(ms, move) == InSeq(move, ms)

\* Mutant: the piece is written as it was, never crowned.
PromotedPiece_never(piece, end, t) == piece

\* Mutant: a man is crowned on the row its side starts from.
PromotedPiece_home_row(piece, end, t) ==
  IF end \div 8 = Seven(t) /\ ~_is_king(piece) THEN upper(piece) ELSE piece

\* lines 174-177: the piece written to the last square.
PromotedPiece(piece, end, t) ==
  IF end \div 8 = Seven(~t) /\ ~_is_king(piece) THEN upper(piece) ELSE piece

Abs(n) == IF n < 0 THEN -n ELSE n
Min(a, c) == IF a < c THEN a ELSE c

\* Mutant: the loop over the pairs of squares removes nothing.
RemoveCaptured_none(b, squares, k) == b

\* Mutant: only the piece of the first jump is removed.
RemoveCaptured_first_only(b, squares, k) ==
  LET difference == Abs(squares[1] - squares[2])
  IN IF difference \notin {18, 14} THEN b
     ELSE [b EXCEPT ![Min(squares[1], squares[2]) + difference \div 2] = EMPTY]

RECURSIVE RemoveCaptured(_, _, _)
\* lines 179-186: the loop over pairwise(squares), from pair k on.
RemoveCaptured(b, squares, k) ==
  IF k >= Len(squares) THEN b
  ELSE LET before == squares[k]
           after == squares[k + 1]
           difference == Abs(before - after)
       IN IF difference \notin {18, 14}
            THEN RemoveCaptured(b, squares, k + 1)
            ELSE RemoveCaptured([b EXCEPT ![Min(before, after) + difference \div 2] = EMPTY],
                                squares, k + 1)

\* line 190
NextPly(h) == h + 1

\* Mutant: the side to move is left as it was.
NextTurn_stays(t) == t

\* line 191
NextTurn(t) == ~t

\* Mutant: the ply counter is incremented inside the loop, once per pair of
\* squares.
ApplyMove_ply_per_pair(b, t, h, move) ==
  LET parsed == [k \in 1..Len(sliced2(move)) |-> _xy_to_i(sliced2(move)[k])]
      squares == [k \in 1..Len(parsed) |-> parsed[k].value]
  IN IF (\E k \in 1..Len(parsed) : parsed[k].raised) \/ squares = <<>>
       THEN [raised |-> TRUE, error |-> "_xy_to_i", board |-> b, turn |-> t,
             half_moves |-> h]
       ELSE LET end == squares[Len(squares)]
                piece == PromotedPiece(b[squares[1]], end, t)
                b1 == RemoveCaptured(b, squares, 1)
                b2 == [b1 EXCEPT ![squares[1]] = EMPTY]
                b3 == [b2 EXCEPT ![end] = piece]
            IN [raised |-> FALSE, error |-> "none", board |-> b3, turn |-> NextTurn(t),
                half_moves |-> h + Len(squares) - 1]

\* lines 170-191: the mutation, for a move that passed the membership test.
ApplyMove(b, t, h, move) ==
  LET parsed == [k \in 1..Len(sliced2(move)) |-> _xy_to_i(sliced2(move)[k])]
      squares == [k \in 1..Len(parsed) |-> parsed[k].value]
  IN IF (\E k \in 1..Len(parsed) : parsed[k].raised) \/ squares = <<>>
       THEN [raised |-> TRUE, error |-> "_xy_to_i", board |-> b, turn |-> t,
             half_moves |-> h]
       ELSE LET end == squares[Len(squares)]
                piece == PromotedPiece(b[squares[1]], end, t)
                b1 == RemoveCaptured(b, squares, 1)
                b2 == [b1 EXCEPT ![squares[1]] = EMPTY]
                b3 == [b2 EXCEPT ![end] = piece]
            IN [raised |-> FALSE, error |-> "none", board |-> b3, turn |-> NextTurn(t),
                half_moves |-> NextPly(h)]

\* Mutant: the move is applied before the membership test raises.
MoveOutcome_applies_first(ms, b, t, h, move) ==
  IF ~IsLegal(ms, move)
    THEN [ApplyMove(b, t, h, move) EXCEPT !.raised = TRUE, !.error = "illegal move"]
    ELSE ApplyMove(b, t, h, move)

\* lines 165-191, given the moves ms that self.legal_moves() yields. The
\* error is named by what raises it: ValueError('illegal move: ...') of
\* line 168, or the ValueError of _xy_to_i in line 171.
MoveOutcome(ms, b, t, h, move) ==
  IF ~IsLegal(ms, move)
    THEN [raised |-> TRUE, error |-> "illegal move", board |-> b, turn |-> t,
          half_moves |-> h]
    ELSE ApplyMove(b, t, h, move)

Board_move(b, t, h, move) == MoveOutcome(legal_moves(b, t), b, t, h, move)

(***************************************************************************)
(* Rendering (lines 72-100) and the read-only methods, as the outcome of   *)
(* one call that consumes all that the method returns: the value and the   *)
(* board, turn and ply counter the call leaves.                            *)
(***************************************************************************)
\* lines 72-79: TILES, by the names of its characters; the two keys that
\* are square colours, and the four that are pieces.
SquareTile(colour) ==
  IF colour = WHITE THEN "WHITE LARGE SQUARE" ELSE "BLACK LARGE SQUARE"

PieceTile ==
  (BK_PIECE :> "LARGE RED CIRCLE") @@ (WH_PIECE :> "LARGE BLUE CIRCLE") @@
  (BK_KING :> "HEAVY BLACK HEART") @@ (WH_KING :> "BLUE HEART")

\* lines 96-100: key = not sum(divmod(i, 8)) % 2 if char == ' ' else char
_tiles(b) ==
  [k \in 1..64 |->
     LET i == k - 1
         char == b[i]
     IN IF char = EMPTY
          THEN SquareTile(~(((i \div 8) + (i % 8)) % 2 # 0))
          ELSE PieceTile[char]]

\* line 80: Board.X, the regional indicator letters A to H.
Board_X == <<"A", "B", "C", "D", "E", "F", "G", "H">>

\* line 81: Board.Y, the keycap digits of Y.
Board_Y == [k \in 1..Len(Y) |-> <<Y[k], "KEYCAP">>]

\* lines 88-90: the text, as its lines; the first is the header, each of
\* the others a row label and the eight tiles of the row.
__str__(b) ==
  <<(<<"BLACK LARGE SQUARE">> \o Board_X)>> \o
  [k \in 1..8 |-> <<Board_Y[k]>> \o SubSeq(_tiles(b), 8 * (k - 1) + 1, 8 * k)]

\* What a read-only call returned: the moves of a generator, the verdict
\* of is_game_over or the lines of the rendering.
Returned(op, square, yielded, over, text) ==
  [op |-> op, square |-> square, yielded |-> yielded, over |-> over, text |-> text]

\* No read-only call has been made since the last call of Board.move.
NoQuery == Returned("none", 0, <<>>, FALSE, <<>>)

\* Mutant: a read-only call tries the first generated move on the board
\* it reads and leaves it there.
Query_plays_first(b, t, h, op, square) ==
  LET ms == legal_moves(b, t)
      after == IF ms = <<>> THEN [board |-> b, turn |-> t, half_moves |-> h]
               ELSE ApplyMove(b, t, h, ms[1])
  IN [returned |-> Returned(op, square, ms, FALSE, <<>>),
      board |-> after.board, turn |-> after.turn, half_moves |-> after.half_moves]

\* lines 88-163: one call of legal_moves, jumps, jumps_from(square),
\* is_game_over or __str__. None of them assigns to a field of the Board.
Query(b, t, h, op, square) ==
  [returned |->
     CASE op = "legal_moves" -> Returned(op, square, legal_moves(b, t), FALSE, <<>>)
       [] op = "jumps" -> Returned(op, square, jumps(b, t), FALSE, <<>>)
       [] op = "jumps_from" -> Returned(op, square, jumps_from(b, t, square), FALSE, <<>>)
       [] op = "is_game_over" -> Returned(op, square, <<>>, is_game_over(b, t), <<>>)
       [] op = "__str__" -> Returned(op, square, <<>>, FALSE, __str__(b)),
   board |-> b, turn |-> t, half_moves |-> h]

(***************************************************************************)
(* The state machine: a Board and the calls made on it.                    *)
(***************************************************************************)
\* Mutant: the two sides stand on each other's rows.
_STARTING_BOARD_swapped ==
  << " ", "w", " ", "w", " ", "w", " ", "w",
     "w", " ", "w", " ", "w", " ", "w", " ",
     " ", "w", " ", "w", " ", "w", " ", "w",
     " ", " ", " ", " ", " ", " ", " ", " ",
     " ", " ", " ", " ", " ", " ", " ", " ",
     "b", " ", "b", " ", "b", " ", "b", " ",
     " ", "b", " ", "b", " ", "b", " ", "b",
     "b", " ", "b", " ", "b", " ", "b", " " >>

_STARTING_BOARD ==
  << " ", "b", " ", "b", " ", "b", " ", "b",
     "b", " ", "b", " ", "b", " ", "b", " ",
     " ", "b", " ", "b", " ", "b", " ", "b",
     " ", " ", " ", " ", " ", " ", " ", " ",
     " ", " ", " ", " ", " ", " ", " ", " ",
     "w", " ", "w", " ", "w", " ", "w", " ",
     " ", "w", " ", "w", " ", "w", " ", "w",
     "w", " ", "w", " ", "w", " ", "w", " " >>

(***************************************************************************)
(* The objects of the module and several Boards at once. A list object is  *)
(* an entry of lists, and a name or a field that is bound to a list holds  *)
(* the index of the entry: lists[1] is the list _STARTING_BOARD names.     *)
(***************************************************************************)
\* The module as the import leaves it: _STARTING_BOARD (lines 17-26) and
\* the two tables (lines 67-68); no Board exists.
Imported ==
  [lists |-> << [i \in 0..63 |-> _STARTING_BOARD[i + 1]] >>,
   _MOVES |-> _MOVES,
   _CAPTURES |-> _CAPTURES,
   boards |-> <<>>,
   acted |-> [op |-> "import", game |-> 0]]

\* The objects of the module and further Boards are not tracked.
NoWorld ==
  [lists |-> <<>>, _MOVES |-> <<>>, _CAPTURES |-> <<>>, boards |-> <<>>,
   acted |-> [op |-> "none", game |-> 0]]

\* Mutant: the constructor binds the Board to the list _STARTING_BOARD
\* names, without the [:].
Board__init___shared(w) ==
  [w EXCEPT !.boards = Append(@, [_board |-> 1, turn |-> WHITE, _half_moves |-> 0])]

\* lines 83-86: Board(); self._board is a new list, the copy
\* _STARTING_BOARD[:] makes.
Board__init__(w) ==
  [w EXCEPT !.lists = Append(@, @[1]),
            !.boards = Append(@, [_board |-> Len(w.lists) + 1, turn |-> WHITE,
                                  _half_moves |-> 0])]

\* The grid of Board k: the list its _board field is bound to.
Grid(w, k) == w.lists[w.boards[k]._board]

\* lines 165-191: Board.move(move) on Board k; the assignments of lines
\* 186-189 write into the list self._board is bound to.
World_move(w, k, move) ==
  LET self == w.boards[k]
      r == Board_move(Grid(w, k), self.turn, self._half_moves, move)
  IN [raised |-> r.raised,
      world |-> [w EXCEPT !.lists[self._board] = r.board,
                          !.boards[k] = [self EXCEPT !.turn = r.turn,
                                                     !._half_moves = r.half_moves]]]

\* Mutant: jumps_from takes the pairs off the list of the table it goes
\* through, as a pop() of each would.
World_query_consumes(w, k, op, square) ==
  LET self == w.boards[k]
      kind == Grid(w, k)[square]
  IN [returned |-> Query(Grid(w, k), self.turn, self._half_moves, op, square).returned,
      world |-> IF op = "jumps_from"
                  THEN [w EXCEPT !._CAPTURES[kind][square] = <<>>]
                  ELSE w]

\* lines 105-163: legal_moves, jumps_from(square) or is_game_over on
\* Board k. They read _MOVES[piece][square] and _CAPTURES[piece][square]
\* and the list self._board is bound to, and assign to none of them.
World_query(w, k, op, square) ==
  LET self == w.boards[k]
      Left(r) ==
        [returned |-> r.returned,
         world |-> [w EXCEPT !.lists[self._board] = r.board,
                             !.boards[k] = [self EXCEPT !.turn = r.turn,
                                                        !._half_moves = r.half_moves]]]
  IN Left(Query(Grid(w, k), self.turn, self._half_moves, op, square))

(***************************************************************************)
(* The two conversions and the two tables, tried on one input at a time.   *)
(***************************************************************************)
\* One trial: the function, its input and, once done, its result. i and
\* xy are the index and the coordinate, input or result; kind and i are
\* the keys of a table lookup and entry the list found.
Trial(fn, i, xy, kind, done, raised, entry) ==
  [fn |-> fn, i |-> i, xy |-> xy, kind |-> kind, done |-> done, raised |-> raised,
   entry |-> entry]

\* Nothing is tried.
NoProbe == Trial("none", 0, <<>>, EMPTY, FALSE, FALSE, <<>>)

\* table[kind][key]: KeyError when a key is absent.
TableLookup(table, kind, key) ==
  IF kind \in DOMAIN table /\ key \in DOMAIN table[kind]
    THEN [raised |-> FALSE, entry |-> table[kind][key]]
    ELSE [raised |-> TRUE, entry |-> <<>>]

(***************************************************************************)
(* CheckersSession: two players, a Board and the turn loop.                *)
(***************************************************************************)
\* str.lower() of a text.
Uppers == <<"A", "B", "C", "D", "E", "F", "G", "H", "I", "J", "K", "L", "M",
            "N", "O", "P", "Q", "R", "S", "T", "U", "V", "W", "X", "Y", "Z">>
Lowers == <<"a", "b", "c", "d", "e", "f", "g", "h", "i", "j", "k", "l", "m",
            "n", "o", "p", "q", "r", "s", "t", "u", "v", "w", "x", "y", "z">>
str_lower(s) ==
  [k \in 1..Len(s) |->
     IF \E n \in 1..26 : Uppers[n] = s[k]
       THEN Lowers[CHOOSE n \in 1..26 : Uppers[n] = s[k]]
       ELSE s[k]]

\* ''.join(s.split()): the text without its whitespace.
Whitespace == {" ", "\t", "\n"}
join_split(s) == SelectSeq(s, LAMBDA c : c \notin Whitespace)

\* line 207: re.compile(r'^([a-h][1-8]\s?)+', re.IGNORECASE).match(s). The
\* pattern has no end anchor: one group at the start of s is a match.
_VALID_MOVE_REGEX(s) ==
  /\ Len(s) >= 2
  /\ \E n \in 1..8 : s[1] \in {Lowers[n], Uppers[n]}
  /\ s[2] \in Range(Y)

\* lines 208-213: the header of each Status.
_MESSAGES ==
  [PLAYING |-> "Your turn, {user}", END |-> "{user} wins!",
   QUIT |-> "{user} forefited...", TIMEOUT |-> "{user} ran out of time..."]

\* The two users of the game, another user, and two channels.
ctx_author == "author"
opponent == "opponent"
ctx_channel == "channel"
Users == {ctx_author, opponent, "bystander"}
Channels == {ctx_channel, "elsewhere"}

\* ps[flag] for a Python list ps of two and a bool flag: False is index 0.
Player(ps, flag) == ps[IF flag THEN 2 ELSE 1]

\* A discord Embed before _update_display has written to it.
Embed ==
  [header |-> "", user |-> "", instructions |-> FALSE, among |-> {}, board |-> <<>>]

\* No message has been handed to _check in the step just taken.
NoInput == [author |-> "", channel |-> "", content |-> <<>>, accepted |-> FALSE]

\* lines 222-237: CheckersSession(ctx, opponent) with the players in the
\* order random.sample put them in; pc is the place _loop and run are
\* at, input the message _check was handed in the step just taken and
\* mover the author of the last accepted move.
CheckersSession__init__(ps) ==
  [_players |-> ps, _status |-> "PLAYING", _display |-> Embed, pc |-> "test",
   input |-> NoInput, mover |-> ""]

\* There is no CheckersSession.
NoSession ==
  [_players |-> <<>>, _status |-> "none", _display |-> Embed, pc |-> "none",
   input |-> NoInput, mover |-> ""]

\* lines 317-319: self._players[self._board.turn]
current(s, t) == Player(s._players, t)

\* Mutant: _check tests the channel of the message and not its author.
_check_any_author(s, b, t, h, message) ==
  LET lowered == str_lower(message.content)
      move == join_split(lowered)
      untouched == [raised |-> FALSE, error |-> "none", board |-> b, turn |-> t,
                    half_moves |-> h]
  IN IF ~(message.channel = ctx_channel)
       THEN [result |-> FALSE, _status |-> s._status, called |-> FALSE,
             move |-> <<>>, r |-> untouched]
     ELSE IF lowered \in {<<"s", "t", "o", "p">>, <<"q", "u", "i", "t">>}
       THEN [result |-> TRUE, _status |-> "QUIT", called |-> FALSE,
             move |-> <<>>, r |-> untouched]
     ELSE IF ~_VALID_MOVE_REGEX(lowered)
       THEN [result |-> FALSE, _status |-> s._status, called |-> FALSE,
             move |-> <<>>, r |-> untouched]
     ELSE LET Called(r) == [result |-> ~r.raised, _status |-> s._status,
                            called |-> TRUE, move |-> move, r |-> r]
          IN Called(Board_move(b, t, h, move))

\* lines 239-256: _check(message). result is whether wait_for takes the
\* message; called is whether Board.move was called, with move and with
\* the outcome r.
_check(s, b, t, h, message) ==
  LET lowered == str_lower(message.content)
      move == join_split(lowered)
      untouched == [raised |-> FALSE, error |-> "none", board |-> b, turn |-> t,
                    half_moves |-> h]
  IN IF ~(message.channel = ctx_channel /\ message.author = current(s, t))
       THEN [result |-> FALSE, _status |-> s._status, called |-> FALSE,
             move |-> <<>>, r |-> untouched]
     ELSE IF lowered \in {<<"s", "t", "o", "p">>, <<"q", "u", "i", "t">>}
       THEN [result |-> TRUE, _status |-> "QUIT", called |-> FALSE,
             move |-> <<>>, r |-> untouched]
     ELSE IF ~_VALID_MOVE_REGEX(lowered)
       THEN [result |-> FALSE, _status |-> s._status, called |-> FALSE,
             move |-> <<>>, r |-> untouched]
     ELSE LET Called(r) == [result |-> ~r.raised, _status |-> s._status,
                            called |-> TRUE, move |-> move, r |-> r]
          IN Called(Board_move(b, t, h, move))

\* lines 258-269: _instructions(): none from the fourth half-move on, else
\* a random sample of up to five of the legal moves; among is what the
\* sample is taken from.
_instructions(b, t, h) ==
  IF h >= 4 THEN [shown |-> FALSE, among |-> {}]
  ELSE [shown |-> TRUE, among |-> Range(legal_moves(b, t))]

\* Mutant: the header of a finished game names the player to move.
_update_display_current(s, b, t, h) ==
  LET Shown(instructions) ==
        [s EXCEPT !._display =
           [header |-> _MESSAGES[s._status], user |-> current(s, t),
            instructions |-> instructions.shown, among |-> instructions.among,
            board |-> __str__(b)]]
  IN Shown(IF s._status = "PLAYING" THEN _instructions(b, t, h)
           ELSE [shown |-> FALSE, among |-> {}])

\* lines 271-288: _update_display()
_update_display(s, b, t, h) ==
  LET user == IF s._status = "END" THEN Player(s._players, ~t) ELSE current(s, t)
      Shown(instructions) ==
        [s EXCEPT !._display =
           [header |-> _MESSAGES[s._status], user |-> user,
            instructions |-> instructions.shown, among |-> instructions.among,
            board |-> __str__(b)]]
  IN Shown(IF s._status = "PLAYING" THEN _instructions(b, t, h)
           ELSE [shown |-> FALSE, among |-> {}])

\* No call of Board.move has been made yet.
NoCall(b, t, h) ==
  [called |-> FALSE, move |-> <<>>, raised |-> FALSE, error |-> "none",
   board |-> b, turn |-> t, half_moves |-> h]

\* Board.__init__
Init ==
  /\ board = [i \in Squares |-> _STARTING_BOARD[i + 1]]
  /\ half_moves = 0
  /\ turn = WHITE
  /\ last = NoCall(board, turn, half_moves)
  /\ successes = 0
  /\ observed = NoQuery
  /\ world = NoWorld
  /\ probe = NoProbe
  /\ session = NoSession

row(i) == i \div 8
col(i) == i % 8

RECURSIVE SubsetsUpTo(_, _)
\* The subsets of D with at most n elements.
SubsetsUpTo(D, n) ==
  IF n = 0 THEN {{}}
  ELSE LET P == SubsetsUpTo(D, n - 1)
       IN P \cup {S \cup {x} : S \in P, x \in D}

PosSquares == {i \in Squares : (row(i) + col(i)) % 2 = 1 /\ col(i) <= MaxCol}

\* A position later in a game: one piece of the side to move, man or king,
\* and up to MaxOpp pieces of the other side, all on dark squares; no man
\* stands on the row where it would have been crowned.
Position(t, s, king, opp) ==
  [i \in Squares |->
     IF i = s THEN (IF king THEN upper(PIECES(t)) ELSE PIECES(t))
     ELSE IF i \in opp THEN (IF row(i) = Seven(t) THEN upper(PIECES(~t)) ELSE PIECES(~t))
     ELSE EMPTY]

InitPos ==
  \E t \in BOOLEAN, s \in PosSquares, king \in BOOLEAN :
    \E opp \in SubsetsUpTo(PosSquares \ {s}, MaxOpp) :
      /\ king \/ row(s) # Seven(~t)
      /\ board = Position(t, s, king, opp)
      /\ turn = t
      /\ half_moves = 2 * PosRound + (IF t = WHITE THEN 0 ELSE 1)
      /\ last = NoCall(board, turn, half_moves)
      /\ successes = half_moves
      /\ observed = NoQuery
      /\ world = NoWorld
      /\ probe = NoProbe
      /\ session = NoSession
  /\ session = NoSession

\* The squares of a move string, as Board.move reads them (line 171).
SquaresOf(move) == [k \in 1..Len(sliced2(move)) |-> _xy_to_i(sliced2(move)[k]).value]

\* One call of Board.move(move), its outcome r computed from the state the
\* call finds.
Call(move, r) ==
  /\ board' = r.board
  /\ turn' = r.turn
  /\ half_moves' = r.half_moves
  /\ last' = [called |-> TRUE, move |-> move, raised |-> r.raised, error |-> r.error,
              board |-> board, turn |-> turn, half_moves |-> half_moves]
  /\ successes' = IF r.raised THEN successes ELSE successes + 1
  /\ observed' = NoQuery

\* The proper prefixes of a generated move that are at least two squares long.
Prefixes(ms) ==
  UNION {{SubSeq(ms[k], 1, 2 * n) : n \in 2..(Len(ms[k]) \div 2 - 1)} : k \in 1..Len(ms)}

LastSquare(move) == SquaresOf(move)[Len(SquaresOf(move))]

\* A generated move with the landing square of one more jump appended.
Extended(ms) ==
  UNION {{ms[k] \o _i_to_xy(c[2]).value : c \in Range(_CAPTURES[WH_KING][LastSquare(ms[k])])} :
           k \in 1..Len(ms)}

\* The first n elements of a sequence.
Take(s, n) == SubSeq(s, 1, IF Len(s) < n THEN Len(s) ELSE n)

\* Move strings that legal_moves does not yield for this board: prefixes
\* and extensions of its jumps, the simple moves when a jump exists, and
\* the first move of the side that is not to move.
OtherMoves(ms, b, t) ==
  (Prefixes(ms) \cup Extended(jumps(b, t)) \cup Range(simple_moves(b, t))
     \cup Range(Take(legal_moves(b, ~t), 1))) \ Range(ms)

\* Board.move is called with a move that legal_moves yields.
MoveGenerated ==
  LET ms == legal_moves(board, turn)
  IN /\ \E m \in Range(ms) : Call(m, MoveOutcome(ms, board, turn, half_moves, m))
     /\ UNCHANGED <<world, probe, session>>

\* Board.move is called with a move string that legal_moves does not yield.
MoveOther ==
  LET ms == legal_moves(board, turn)
  IN /\ \E c \in OtherMoves(ms, board, turn) :
          Call(c, MoveOutcome(ms, board, turn, half_moves, c))
     /\ UNCHANGED <<world, probe, session>>

\* Move texts with a coordinate that is not on the board: the first
\* generated move with its destination replaced by a column after h, and
\* by a row after 8.
OffBoardMoves(ms) ==
  UNION {{SubSeq(m, 1, 2) \o <<"i", "4">>, SubSeq(m, 1, 2) \o <<"b", "9">>} :
           m \in Range(Take(ms, 1))}

\* Board.move is called with a move text that names a square off the
\* board.
MoveOffBoard ==
  LET ms == legal_moves(board, turn)
  IN /\ \E c \in OffBoardMoves(ms) :
          Call(c, MoveOutcome(ms, board, turn, half_moves, c))
     /\ UNCHANGED <<world, probe, session>>

\* A game from a new Board, played for MaxPly moves.
Next == (successes < MaxPly /\ MoveGenerated) \/ MoveOther \/ MoveOffBoard

Spec == Init /\ [][Next]_vars

\* A constructed position is the input of one call of Board.move.
NextPos == (~last.called /\ MoveGenerated) \/ (~last.called /\ MoveOther)

SpecPos == InitPos /\ [][NextPos]_vars

\* The squares of a corner of the board wide enough for a chain of four
\* jumps around a square.
RingSquares == {i \in Squares : (row(i) + col(i)) % 2 = 1 /\ row(i) <= MaxRing /\ col(i) <= MaxRing}

\* A position later in a game with up to MaxRing pieces of the other side,
\* in that corner.
InitRing ==
  \E t \in BOOLEAN, s \in RingSquares, king \in BOOLEAN :
    \E opp \in SubsetsUpTo(RingSquares \ {s}, MaxRing) :
      /\ king \/ row(s) # Seven(~t)
      /\ board = Position(t, s, king, opp)
      /\ turn = t
      /\ half_moves = 2 * PosRound + (IF t = WHITE THEN 0 ELSE 1)
      /\ last = NoCall(board, turn, half_moves)
      /\ successes = half_moves
      /\ observed = NoQuery
      /\ world = NoWorld
      /\ probe = NoProbe
      /\ session = NoSession

\* One generated move from each of these positions.
NextRing == ~last.called /\ MoveGenerated

SpecRing == InitRing /\ [][NextRing]_vars

\* A new Board, or a position later in a game.
InitEither == Init \/ InitPos

\* Generated moves only: a game from a new Board for MaxPly moves, and one
\* move from each later position.
NextPlayed == (successes < MaxPly \/ ~last.called) /\ MoveGenerated

SpecPlayed == InitEither /\ [][NextPlayed]_vars

\* One read-only call, its outcome r computed from the state the call finds.
Observe(r) ==
  /\ board' = r.board
  /\ turn' = r.turn
  /\ half_moves' = r.half_moves
  /\ observed' = r.returned
  /\ UNCHANGED <<last, successes, world, probe, session>>

CallLegalMoves == Observe(Query(board, turn, half_moves, "legal_moves", 0))

CallJumps == Observe(Query(board, turn, half_moves, "jumps", 0))

\* jumps_from is called for the square of a piece of the side to move.
CallJumpsFrom ==
  \E square \in Range(_find_all_pieces(board, PIECES(turn))) :
    Observe(Query(board, turn, half_moves, "jumps_from", square))

CallIsGameOver == Observe(Query(board, turn, half_moves, "is_game_over", 0))

CallStr == Observe(Query(board, turn, half_moves, "__str__", 0))

\* A game from a new Board, played for MaxQueryPly moves, with read-only
\* calls at any point of it.
NextQuery ==
  \/ (successes < MaxQueryPly /\ MoveGenerated)
  \/ CallLegalMoves
  \/ CallJumps
  \/ CallJumpsFrom
  \/ CallIsGameOver
  \/ CallStr

SpecQuery == Init /\ [][NextQuery]_vars

\* The module has been imported and no Board made; the Board of the other
\* specifications is not used.
InitGames ==
  /\ board = [i \in Squares |-> EMPTY]
  /\ turn = WHITE
  /\ half_moves = 0
  /\ last = NoCall(board, turn, half_moves)
  /\ successes = 0
  /\ observed = NoQuery
  /\ world = Imported
  /\ probe = NoProbe
  /\ session = NoSession

\* The successful calls of Board.move so far, on all Boards together.
GamePlies(w) ==
  LET RECURSIVE Sum(_)
      Sum(k) == IF k = 0 THEN 0 ELSE w.boards[k]._half_moves + Sum(k - 1)
  IN Sum(Len(w.boards))

\* A step of several games: the objects of the module and the Boards
\* change to w, after the call op on Board k.
GameStep(w, op, k) ==
  /\ world' = [w EXCEPT !.acted = [op |-> op, game |-> k]]
  /\ UNCHANGED <<board, turn, half_moves, last, successes, observed, probe, session>>

\* Board() is called.
NewGame ==
  /\ Len(world.boards) < MaxGames
  /\ GameStep(Board__init__(world), "Board", Len(world.boards) + 1)

\* Board.move is called on one of the Boards with a move that its
\* legal_moves yields.
GameMove ==
  /\ GamePlies(world) < MaxGamePly
  /\ \E k \in 1..Len(world.boards) :
       \E m \in Range(legal_moves(Grid(world, k), world.boards[k].turn)) :
         GameStep(World_move(world, k, m).world, "move", k)

\* Board.move is called on one of the Boards with the first move of the
\* side that is not to move, and raises.
GameMoveRefused ==
  \E k \in 1..Len(world.boards) :
    \E m \in Range(Take(legal_moves(Grid(world, k), ~world.boards[k].turn), 1)) :
      /\ World_move(world, k, m).raised
      /\ GameStep(World_move(world, k, m).world, "refused", k)

NextGames == NewGame \/ GameMove \/ GameMoveRefused

SpecGames == InitGames /\ [][NextGames]_vars

\* A read-only call on Board k: what it returns is kept.
GameQuery(k, op, square) ==
  \E r \in {World_query(world, k, op, square)} :
    /\ world' = [r.world EXCEPT !.acted = [op |-> op, game |-> k]]
    /\ observed' = r.returned
    /\ UNCHANGED <<board, turn, half_moves, last, successes, probe, session>>

TableLegalMoves == \E k \in 1..Len(world.boards) : GameQuery(k, "legal_moves", 0)

\* jumps_from is called for the square of the first piece of the side to
\* move, as legal_moves calls it.
TableJumpsFrom ==
  \E k \in 1..Len(world.boards) :
    \E square \in Range(Take(_find_all_pieces(Grid(world, k),
                                              PIECES(world.boards[k].turn)), 1)) :
      GameQuery(k, "jumps_from", square)

TableIsGameOver == \E k \in 1..Len(world.boards) : GameQuery(k, "is_game_over", 0)

\* Board.move is called on one of the Boards with a move that its
\* legal_moves yields; what a read-only call returned before is dropped.
TableMove ==
  /\ GamePlies(world) < MaxTablePly
  /\ \E k \in 1..Len(world.boards) :
       \E m \in Range(legal_moves(Grid(world, k), world.boards[k].turn)) :
         /\ world' = [World_move(world, k, m).world
                        EXCEPT !.acted = [op |-> "move", game |-> k]]
         /\ observed' = NoQuery
         /\ UNCHANGED <<board, turn, half_moves, last, successes, probe, session>>

\* Several games, with read-only calls and moves on any of the Boards.
NextTables ==
  NewGame \/ TableLegalMoves \/ TableJumpsFrom \/ TableIsGameOver \/ TableMove

SpecTables == InitGames /\ [][NextTables]_vars

\* The squares the positions of a session are made of.
SessSquares == {i \in PosSquares : row(i) <= MaxSessRow}

\* A session at the test of its turn loop: on a new Board, or some rounds
\* into the game with one piece of the side to move and up to MaxSessOpp
\* pieces of the other side left. The players are in either order.
InitSession ==
  /\ \/ /\ board = [i \in Squares |-> _STARTING_BOARD[i + 1]]
        /\ turn = WHITE
        /\ half_moves = 0
     \/ \E t \in BOOLEAN, s \in SessSquares, king \in BOOLEAN :
          \E opp \in SubsetsUpTo(SessSquares \ {s}, MaxSessOpp) :
            /\ king \/ row(s) # Seven(~t)
            /\ board = Position(t, s, king, opp)
            /\ turn = t
            /\ half_moves = 2 * PosRound + (IF t = WHITE THEN 0 ELSE 1)
  /\ last = NoCall(board, turn, half_moves)
  /\ successes = 0
  /\ observed = NoQuery
  /\ world = NoWorld
  /\ probe = NoProbe
  /\ \E ps \in {<<ctx_author, opponent>>, <<opponent, ctx_author>>} :
       session = CheckersSession__init__(ps)

\* A step of the session in which no message is handed to _check, and
\* which leaves the Board alone.
SessionStep(s) ==
  /\ session' = [s EXCEPT !.input = NoInput]
  /\ UNCHANGED <<board, turn, half_moves, last, successes, observed, world, probe>>

\* lines 295-297: the test of the while loop finds moves; the display is
\* brought up to date and shown, and the wait for a message begins.
LoopTurn ==
  /\ session.pc = "test"
  /\ ~is_game_over(board, turn)
  /\ SessionStep([_update_display(session, board, turn, half_moves) EXCEPT !.pc = "wait"])

\* lines 295 and 310: the test of the while loop finds no move; _loop
\* sets the status and returns.
LoopEnds ==
  /\ session.pc = "test"
  /\ is_game_over(board, turn)
  /\ SessionStep([session EXCEPT !._status = "END", !.pc = "returned"])

\* lines 299-302: the wait times out.
Timeout ==
  /\ session.pc = "wait"
  /\ SessionStep([session EXCEPT !._status = "TIMEOUT", !.pc = "returned"])

\* line 299: a message arrives while _loop waits and wait_for hands it
\* to _check; it ends the wait when _check returns True.
Receive(message) ==
  /\ session.pc = "wait"
  /\ \E c \in {_check(session, board, turn, half_moves, message)} :
       /\ session' = [session EXCEPT
                        !._status = c._status,
                        !.pc = IF c.result THEN "resumed" ELSE "wait",
                        !.input = [author |-> message.author, channel |-> message.channel,
                                   content |-> message.content, accepted |-> c.result],
                        !.mover = IF c.called /\ c.result THEN message.author ELSE @]
       /\ IF c.called THEN Call(c.move, c.r)
          ELSE UNCHANGED <<board, turn, half_moves, last, successes, observed>>
  /\ UNCHANGED <<world, probe>>

Message(author, channel, content) ==
  [author |-> author, channel |-> channel, content |-> content]

\* A move as a player may type it: in capitals, its squares apart.
Typed(move) ==
  LET sq == sliced2(move)
  IN Flatten([k \in 1..Len(sq) |->
                <<Uppers[CHOOSE n \in 1..8 : Lowers[n] = sq[k][1]], sq[k][2]>>
                  \o (IF k < Len(sq) THEN <<" ">> ELSE <<>>)])

\* The player to move sends a move that legal_moves yields, as it is or,
\* for the first of them, as typed.
SessMove ==
  /\ successes < MaxSessPly
  /\ \E m \in Range(legal_moves(board, turn))
             \cup {Typed(n) : n \in Range(Take(legal_moves(board, turn), 1))} :
       Receive(Message(current(session, turn), ctx_channel, m))

\* The player to move sends 'stop' or 'quit', in any case of letters.
SessQuit ==
  \E content \in {<<"s", "t", "o", "p">>, <<"q", "u", "i", "t">>, <<"Q", "u", "i", "t">>} :
    Receive(Message(current(session, turn), ctx_channel, content))

\* The texts of the player to move that are neither: 'stop' with a space
\* after it, the first legal move with a space before it or a mark after
\* it, and the first move of the other side.
OtherTexts(b, t) ==
  {<<"s", "t", "o", "p", " ">>}
    \cup UNION {{<<" ">> \o m, m \o <<"!">>} : m \in Range(Take(legal_moves(b, t), 1))}
    \cup Range(Take(legal_moves(b, ~t), 1))

SessOtherText ==
  \E content \in OtherTexts(board, turn) :
    Receive(Message(current(session, turn), ctx_channel, content))

\* Somebody else in the channel of the game sends the first legal move,
\* or the player to move sends 'quit' in another channel.
SessOtherSender ==
  \/ \E author \in Users \ {current(session, turn)} :
       \E content \in Range(Take(legal_moves(board, turn), 1)) :
         Receive(Message(author, ctx_channel, content))
  \/ \E channel \in Channels \ {ctx_channel} :
       Receive(Message(current(session, turn), channel, <<"q", "u", "i", "t">>))

\* Mutant: _loop goes back to the test of the loop whatever the status.
Resume_ignores_quit ==
  /\ session.pc = "resumed"
  /\ SessionStep([session EXCEPT !.pc = "test"])

\* lines 304-308: wait_for has returned the message; _loop returns when
\* the status is QUIT and goes back to the test of the loop otherwise.
Resume ==
  /\ session.pc = "resumed"
  /\ SessionStep([session EXCEPT !.pc = IF session._status = "QUIT" THEN "returned"
                                        ELSE "test"])

\* lines 312-315: run(), after _loop has returned: the display is brought
\* up to date and sent.
Finish ==
  /\ session.pc = "returned"
  /\ SessionStep([_update_display(session, board, turn, half_moves) EXCEPT !.pc = "sent"])

NextSession ==
  \/ LoopTurn
  \/ LoopEnds
  \/ Timeout
  \/ SessMove
  \/ SessQuit
  \/ SessOtherText
  \/ SessOtherSender
  \/ Resume
  \/ Finish

SpecSession == InitSession /\ [][NextSession]_vars

\* The characters a coordinate is tried with: the letters and digits of
\* the board and some that are not.
TrialLetters == Range(X) \cup {"i", "z", "A", "H", "1", " "}
TrialDigits == Range(Y) \cup {"0", "9", "a", " "}

\* The texts _xy_to_i is tried with: all pairs of the characters, and
\* some texts that are not two characters long.
TrialTexts ==
  {<<x, y>> : x \in TrialLetters, y \in TrialDigits}
    \cup {<<>>, <<"a">>, <<"a", "1", "b">>, <<"a", "1", "b", "2">>}

\* An input is chosen for one of the conversions or one of the tables.
InitPure ==
  /\ board = [i \in Squares |-> EMPTY]
  /\ turn = WHITE
  /\ half_moves = 0
  /\ last = NoCall(board, turn, half_moves)
  /\ successes = 0
  /\ observed = NoQuery
  /\ world = NoWorld
  /\ session = NoSession
  /\ \/ \E i \in (-MaxIndex)..MaxIndex :
          probe = Trial("_i_to_xy", i, <<>>, EMPTY, FALSE, FALSE, <<>>)
     \/ \E xy \in TrialTexts :
          probe = Trial("_xy_to_i", 0, xy, EMPTY, FALSE, FALSE, <<>>)
     \/ \E fn \in {"_MOVES", "_CAPTURES"}, kind \in {BK_PIECE, WH_PIECE, BK_KING, WH_KING},
           key \in 0..MaxIndex :
          probe = Trial(fn, key, <<>>, kind, FALSE, FALSE, <<>>)

\* The trial is done: the rest of the state is left.
Tried(t) ==
  /\ probe' = t
  /\ UNCHANGED <<board, turn, half_moves, last, successes, observed, world, session>>

TryIToXy ==
  /\ probe.fn = "_i_to_xy" /\ ~probe.done
  /\ LET r == _i_to_xy(probe.i)
     IN Tried([probe EXCEPT !.done = TRUE, !.raised = r.raised, !.xy = r.value])

TryXyToI ==
  /\ probe.fn = "_xy_to_i" /\ ~probe.done
  /\ LET r == _xy_to_i(probe.xy)
     IN Tried([probe EXCEPT !.done = TRUE, !.raised = r.raised, !.i = r.value])

TryMoves ==
  /\ probe.fn = "_MOVES" /\ ~probe.done
  /\ LET r == TableLookup(_MOVES, probe.kind, probe.i)
     IN Tried([probe EXCEPT !.done = TRUE, !.raised = r.raised, !.entry = r.entry])

TryCaptures ==
  /\ probe.fn = "_CAPTURES" /\ ~probe.done
  /\ LET r == TableLookup(_CAPTURES, probe.kind, probe.i)
     IN Tried([probe EXCEPT !.done = TRUE, !.raised = r.raised, !.entry = r.entry])

NextPure == TryIToXy \/ TryXyToI \/ TryMoves \/ TryCaptures

SpecPure == InitPure /\ [][NextPure]_vars


(***************************************************************************)
(* Vocabulary of the properties.                                           *)
(***************************************************************************)
\* The moves legal_moves yields in the current state, as lists of squares.
Yields == {SquaresOf(m) : m \in Range(legal_moves(board, turn))}

\* Two squares a one-step diagonal apart, and a two-step diagonal apart.
IsStep(a, c) == Abs(row(a) - row(c)) = 1 /\ Abs(col(a) - col(c)) = 1
IsJump(a, c) == Abs(row(a) - row(c)) = 2 /\ Abs(col(a) - col(c)) = 2

\* The square between the two ends of a jump.
Mid(a, c) == _to_i((col(a) + col(c)) \div 2, (row(a) + row(c)) \div 2)

\* A list of squares that is a chain of jumps, and the squares it jumps over.
IsChain(sq) == Len(sq) >= 2 /\ \A k \in 1..(Len(sq) - 1) : IsJump(sq[k], sq[k + 1])
Overs(sq) == {Mid(sq[k], sq[k + 1]) : k \in 1..(Len(sq) - 1)}

\* The side to move has a capture: a capture-table pair of one of its
\* pieces whose over-square holds an opponent piece and whose landing
\* square is empty.
CaptureExists(b, t) ==
  \E i \in Squares :
    /\ lower(b[i]) = PIECES(t)
    /\ \E c \in Range(_CAPTURES[b[i]][i]) :
         lower(b[c[1]]) = PIECES(~t) /\ b[c[2]] = EMPTY

\* A further jump is open at the end of chain sq for a piece of kind p: a
\* pair of p's table at the last square, over an opponent piece the chain
\* has not captured, into an empty square.
FurtherJump(b, t, p, sq) ==
  \E c \in Range(_CAPTURES[p][sq[Len(sq)]]) :
    /\ lower(b[c[1]]) = PIECES(~t)
    /\ c[1] \notin Overs(sq)
    /\ b[c[2]] = EMPTY

\* The row on which a man of side t is crowned, and the row it starts from.
PromotionRow(t) == IF t = WHITE THEN 0 ELSE 7
HomeRow(t) == IF t = WHITE THEN 7 ELSE 0

(***************************************************************************)
(* C1. Forced capture: when the side to move has a capture, every move     *)
(* legal_moves yields is a chain of jumps and none is a one-step move.     *)
(***************************************************************************)
C1_ForcedCapture ==
  CaptureExists(board, turn) =>
    \A sq \in Yields : IsChain(sq) /\ ~(Len(sq) = 2 /\ IsStep(sq[1], sq[2]))

\* A capture exists while a simple move is open too, and moves are yielded.
C1_Witness ==
  /\ CaptureExists(board, turn)
  /\ simple_moves(board, turn) # <<>>
  /\ Yields # {}

(***************************************************************************)
(* C2. Maximality for men: every chain yielded for a man ends where no     *)
(* further jump is open, unless its last jump left from the man's          *)
(* promotion row.                                                          *)
(***************************************************************************)
C2_Maximality ==
  \A sq \in Yields :
    (IsChain(sq) /\ ~_is_king(board[sq[1]]) /\ row(sq[Len(sq) - 1]) # PromotionRow(turn))
      => ~FurtherJump(board, turn, board[sq[1]], sq)

(***************************************************************************)
(* C3. Kings are never cut off: every chain yielded for a king ends where  *)
(* no further jump is open in any of the four directions.                  *)
(***************************************************************************)
C3_KingNeverCutOff ==
  \A sq \in Yields :
    (IsChain(sq) /\ _is_king(board[sq[1]]))
      => ~FurtherJump(board, turn, board[sq[1]], sq)

\* The moves legal_moves yielded for the state the last call found.
YieldedBefore == {SquaresOf(m) : m \in Range(legal_moves(last.board, last.turn))}

(***************************************************************************)
(* C4. Board.move leaves the grid, the turn and the ply counter as they    *)
(* were whenever it raises.                                                *)
(***************************************************************************)
C4_FailureLeavesBoard ==
  (last.called /\ last.raised) =>
    /\ board = last.board
    /\ turn = last.turn
    /\ half_moves = last.half_moves

\* A call raised for a move that names a piece of the side to move and is
\* not among the generated moves.
C4_Witness ==
  /\ last.called /\ last.raised
  /\ ~InSeq(last.move, legal_moves(last.board, last.turn))
  /\ lower(last.board[SquaresOf(last.move)[1]]) = PIECES(last.turn)

(***************************************************************************)
(* C5. Round trip: Board.move succeeds on every move that legal_moves      *)
(* yields for the same state, in every state reached from a new Board.     *)
(***************************************************************************)
C5_RoundTrip ==
  /\ \A m \in Range(legal_moves(board, turn)) :
       ~Board_move(board, turn, half_moves, m).raised
  /\ (last.called /\ InSeq(last.move, legal_moves(last.board, last.turn)))
       => ~last.raised

\* A generated capture has been played from a state reached from a new
\* Board, and the state it led to yields moves again.
C5_Witness ==
  /\ last.called /\ ~last.raised
  /\ IsChain(SquaresOf(last.move))
  /\ legal_moves(board, turn) # <<>>

(***************************************************************************)
(* C6. Membership is all-or-nothing: Board.move raises for every move      *)
(* whose list of squares is not one of the lists legal_moves yields.       *)
(***************************************************************************)
C6_AllOrNothing ==
  (last.called /\ SquaresOf(last.move) \notin YieldedBefore) => last.raised

\* A call raised for a proper prefix of a generated chain.
C6_Witness ==
  /\ last.called /\ last.raised
  /\ \E sq \in YieldedBefore :
       /\ Len(SquaresOf(last.move)) < Len(sq)
       /\ SquaresOf(last.move) = SubSeq(sq, 1, Len(SquaresOf(last.move)))

(***************************************************************************)
(* C7. Every successful Board.move adds exactly 1 to half_moves, whatever  *)
(* the number of jumps, and a failed one adds nothing: half_moves is the   *)
(* number of successful moves so far.                                      *)
(***************************************************************************)
C7_PlyCounter ==
  /\ half_moves = successes
  /\ (last.called /\ ~last.raised) => half_moves = last.half_moves + 1
  /\ (last.called /\ last.raised) => half_moves = last.half_moves

\* A chain of at least two jumps has been played.
C7_Witness ==
  /\ last.called /\ ~last.raised
  /\ IsChain(SquaresOf(last.move))
  /\ Len(SquaresOf(last.move)) >= 3

(***************************************************************************)
(* C8. No recapture: the squares jumped over in a yielded chain are        *)
(* pairwise distinct.                                                      *)
(***************************************************************************)
C8_NoRecapture ==
  \A sq \in Yields :
    IsChain(sq) => Cardinality(Overs(sq)) = Len(sq) - 1

\* A yielded chain ends, not by the cutoff, where the only jump left would
\* take a piece the chain has already captured.
C8_Witness ==
  \E sq \in Yields :
    /\ IsChain(sq) /\ Len(sq) >= 3
    /\ row(sq[Len(sq) - 1]) # HomeRow(turn)
    /\ \E c \in Range(_CAPTURES[board[sq[1]]][sq[Len(sq)]]) :
         c[1] \in Overs(sq) /\ board[c[2]] = EMPTY

(***************************************************************************)
(* C9. Promotion stops the chain: in a chain yielded for a man, a landing  *)
(* square on the man's promotion row is the last square of the chain.      *)
(***************************************************************************)
C9_PromotionStopsChain ==
  \A sq \in Yields :
    (IsChain(sq) /\ ~_is_king(board[sq[1]])) =>
      \A k \in 2..Len(sq) : row(sq[k]) = PromotionRow(turn) => k = Len(sq)

\* A man's chain ends on its promotion row where a king could jump on.
C9_Witness ==
  \E sq \in Yields :
    /\ IsChain(sq) /\ ~_is_king(board[sq[1]])
    /\ row(sq[Len(sq)]) = PromotionRow(turn)
    /\ FurtherJump(board, turn, upper(board[sq[1]]), sq)

(***************************************************************************)
(* C10. Jump validity: in a yielded chain every consecutive pair of        *)
(* squares is a two-square diagonal jump over a square holding an opponent *)
(* piece into a square that is empty on the board.                         *)
(***************************************************************************)
C10_JumpValidity ==
  jumps(board, turn) # <<>> =>
    \A sq \in Yields :
      \A k \in 1..(Len(sq) - 1) :
        /\ IsJump(sq[k], sq[k + 1])
        /\ lower(board[Mid(sq[k], sq[k + 1])]) = PIECES(~turn)
        /\ board[sq[k + 1]] = EMPTY

\* A chain is yielded for a piece while another pair of the table at its
\* square, over an opponent piece, is refused because the landing square
\* is occupied.
C10_Witness ==
  \E sq \in Yields :
    /\ IsChain(sq)
    /\ \E c \in Range(_CAPTURES[board[sq[1]]][sq[1]]) :
         lower(board[c[1]]) = PIECES(~turn) /\ board[c[2]] # EMPTY

(***************************************************************************)
(* C11. Promotion on apply: after a successful Board.move the last square  *)
(* of the sequence holds the moved piece, of the colour it had; it is a    *)
(* king exactly when the piece was a king already or the last square lies  *)
(* on the mover's promotion row (row 0 for white, row 7 for black).        *)
(***************************************************************************)
C11_PromotionOnApply ==
  (last.called /\ ~last.raised) =>
    LET sq == SquaresOf(last.move)
        piece == last.board[sq[1]]
        end == sq[Len(sq)]
    IN /\ lower(piece) = PIECES(last.turn)
       /\ lower(board[end]) = lower(piece)
       /\ _is_king(board[end]) <=>
            (_is_king(piece) \/ row(end) = PromotionRow(last.turn))
       /\ _is_king(piece) => board[end] = piece

\* A man has captured into its promotion row and stands there as a king.
C11_Witness ==
  /\ last.called /\ ~last.raised
  /\ IsChain(SquaresOf(last.move))
  /\ ~_is_king(last.board[SquaresOf(last.move)[1]])
  /\ row(LastSquare(last.move)) = PromotionRow(last.turn)
  /\ board[LastSquare(last.move)] = upper(PIECES(last.turn))

\* The squares between the two ends of the two-square jumps of a sequence.
JumpedOver(sq) ==
  {Mid(sq[k], sq[k + 1]) : k \in {j \in 1..(Len(sq) - 1) : IsJump(sq[j], sq[j + 1])}}

(***************************************************************************)
(* C12. Effect and frame of a successful Board.move: the first square of   *)
(* the sequence and the midpoint of each of its two-square jumps are       *)
(* empty, the last square holds the moved piece, and every other cell of   *)
(* the 64 is as it was; a one-step move removes no piece.                  *)
(***************************************************************************)
C12_EffectAndFrame ==
  (last.called /\ ~last.raised) =>
    LET sq == SquaresOf(last.move)
        end == sq[Len(sq)]
    IN /\ end # sq[1]
       /\ board[sq[1]] = EMPTY
       /\ lower(board[end]) = lower(last.board[sq[1]])
       /\ \A i \in JumpedOver(sq) : board[i] = EMPTY /\ last.board[i] # EMPTY
       /\ \A i \in Squares \ ({sq[1], end} \cup JumpedOver(sq)) : board[i] = last.board[i]
       /\ (Len(sq) = 2 /\ IsStep(sq[1], sq[2])) =>
            /\ JumpedOver(sq) = {}
            /\ Cardinality({i \in Squares : board[i] # EMPTY})
                 = Cardinality({i \in Squares : last.board[i] # EMPTY})

\* A chain of two jumps has been played past an opponent piece that it did
\* not capture and that stands where it stood.
C12_Witness ==
  /\ last.called /\ ~last.raised
  /\ Cardinality(JumpedOver(SquaresOf(last.move))) >= 2
  /\ \E i \in Squares \ JumpedOver(SquaresOf(last.move)) :
       lower(last.board[i]) = PIECES(~last.turn) /\ board[i] = last.board[i]

(***************************************************************************)
(* C13. Turn alternation: a successful Board.move flips the side to move   *)
(* and a failed one leaves it, so in every state reached from a new Board  *)
(* white is to move exactly when half_moves is even.                       *)
(***************************************************************************)
C13_TurnAlternation ==
  /\ (turn = WHITE) <=> (half_moves % 2 = 0)
  /\ (last.called /\ ~last.raised) => turn = ~last.turn
  /\ (last.called /\ last.raised) => turn = last.turn

\* After two successful moves it is white's turn again, and after a third
\* a call by black has failed and left black to move.
C13_Witness ==
  /\ half_moves = 3
  /\ turn = BLACK
  /\ last.called /\ last.raised

\* The side to move has a one-step move: a simple-move table entry of one
\* of its pieces that is empty.
SimpleMoveExists(b, t) ==
  \E i \in Squares :
    /\ lower(b[i]) = PIECES(t)
    /\ \E e \in Range(_MOVES[b[i]][i]) : b[e] = EMPTY

(***************************************************************************)
(* C14. is_game_over is True exactly when legal_moves yields nothing for   *)
(* the side to move: it is True when every piece of that side is blocked   *)
(* and has no capture, and False when a simple move or a capture exists.   *)
(***************************************************************************)
C14_GameOver ==
  /\ is_game_over(board, turn) <=> (legal_moves(board, turn) = <<>>)
  /\ (~SimpleMoveExists(board, turn) /\ ~CaptureExists(board, turn))
       => is_game_over(board, turn)
  /\ (SimpleMoveExists(board, turn) \/ CaptureExists(board, turn))
       => ~is_game_over(board, turn)

\* The side to move has a piece on the board, every step of it is blocked
\* and it has no capture: the game is reported over.
C14_Witness ==
  /\ \E i \in Squares :
       lower(board[i]) = PIECES(turn) /\ _MOVES[board[i]][i] # <<>>
  /\ ~SimpleMoveExists(board, turn)
  /\ ~CaptureExists(board, turn)
  /\ is_game_over(board, turn)

\* The seven first moves of white, as the strings legal_moves yields.
WhiteFirstMoves ==
  { <<"a", "3", "b", "4">>, <<"c", "3", "b", "4">>, <<"c", "3", "d", "4">>,
    <<"e", "3", "d", "4">>, <<"e", "3", "f", "4">>, <<"g", "3", "f", "4">>,
    <<"g", "3", "h", "4">> }

(***************************************************************************)
(* C15. From the standard start position legal_moves yields exactly the 7  *)
(* one-step forward moves of white's front row (a3b4, c3b4, c3d4, e3d4,    *)
(* e3f4, g3f4, g3h4) and no capture; after any one of them it yields       *)
(* exactly 7 one-step forward moves of black's front row and no capture.   *)
(***************************************************************************)
C15_OpeningMoves ==
  LET ms == legal_moves(board, turn)
  IN /\ successes = 0 =>
          /\ Len(ms) = 7
          /\ Range(ms) = WhiteFirstMoves
          /\ ~CaptureExists(board, turn)
     /\ successes = 1 =>
          /\ Len(ms) = 7
          /\ Cardinality(Range(ms)) = 7
          /\ ~CaptureExists(board, turn)
          /\ \A m \in Range(ms) :
               LET sq == SquaresOf(m)
               IN /\ Len(sq) = 2
                  /\ board[sq[1]] = BK_PIECE
                  /\ row(sq[1]) = 2 /\ row(sq[2]) = 3
                  /\ IsStep(sq[1], sq[2])

\* White has played one of its seven first moves and black is to move.
C15_Witness ==
  /\ successes = 1
  /\ last.called /\ ~last.raised
  /\ last.move \in WhiteFirstMoves
  /\ turn = BLACK

\* The valid jumps of the side to move: a square of one of its pieces and a
\* pair of the piece's capture table there, over an opponent piece into an
\* empty square.
ValidJumps(b, t) ==
  UNION {{<<i, c>> : c \in {d \in Range(_CAPTURES[b[i]][i]) :
                                lower(b[d[1]]) = PIECES(~t) /\ b[d[2]] = EMPTY}} :
           i \in {k \in Squares : lower(b[k]) = PIECES(t)}}

(***************************************************************************)
(* C16. Single capture: when exactly one valid jump exists for the side to *)
(* move, it is a man's, and no further jump is open from its landing       *)
(* square, legal_moves yields exactly one move, that two-square chain,     *)
(* whatever one-step moves the other pieces of the side have.              *)
(***************************************************************************)
C16_SingleCapture ==
  LET J == ValidJumps(board, turn)
  IN \A j \in J :
       (/\ J = {j}
        /\ ~_is_king(board[j[1]])
        /\ ~FurtherJump(board, turn, board[j[1]], <<j[1], j[2][2]>>))
         => /\ Len(legal_moves(board, turn)) = 1
            /\ Yields = {<<j[1], j[2][2]>>}

\* One man has the only valid jump, with nothing to jump from its landing
\* square, while another piece of its side has a one-step move; the jump
\* is what legal_moves yields.
C16_Witness ==
  LET J == ValidJumps(board, turn)
  IN \E j \in J :
       /\ J = {j}
       /\ ~_is_king(board[j[1]])
       /\ ~FurtherJump(board, turn, board[j[1]], <<j[1], j[2][2]>>)
       /\ \E i \in Squares \ {j[1]} :
            /\ lower(board[i]) = PIECES(turn)
            /\ \E e \in Range(_MOVES[board[i]][i]) : board[e] = EMPTY
       /\ <<j[1], j[2][2]>> \in Yields

\* The one-step moves open to the side to move: a square of one of its
\* pieces and an empty square of the piece's simple-move table there.
OpenSteps(b, t) ==
  UNION {{<<i, e>> : e \in {d \in Range(_MOVES[b[i]][i]) : b[d] = EMPTY}} :
           i \in {k \in Squares : lower(b[k]) = PIECES(t)}}

(***************************************************************************)
(* C17. Simple-move phase: when the side to move has no capture anywhere,  *)
(* legal_moves yields exactly the pairs of a square holding one of its     *)
(* pieces and an empty square of that piece's simple-move table entry      *)
(* there: none is missing and nothing else is yielded.                     *)
(***************************************************************************)
C17_SimpleMovePhase ==
  ~CaptureExists(board, turn) =>
    /\ Yields = OpenSteps(board, turn)
    /\ Len(legal_moves(board, turn)) = Cardinality(OpenSteps(board, turn))

\* No capture exists; a king of the side to move has an empty destination,
\* which is yielded, and an occupied one, which is not.
C17_Witness ==
  /\ ~CaptureExists(board, turn)
  /\ \E i \in Squares :
       /\ board[i] = upper(PIECES(turn))
       /\ \E e \in Range(_MOVES[board[i]][i]) : board[e] = EMPTY /\ <<i, e>> \in Yields
       /\ \E e \in Range(_MOVES[board[i]][i]) : board[e] # EMPTY /\ <<i, e>> \notin Yields

\* A light square: row + column is even.
IsLight(i) == (row(i) + col(i)) % 2 = 0

(***************************************************************************)
(* C18. Light squares stay empty: in every state reached from a new Board  *)
(* by Board.move calls, successful or failed, every cell whose row+column  *)
(* is even is empty, and no move legal_moves yields has a light square     *)
(* among its squares.                                                      *)
(***************************************************************************)
C18_LightSquaresEmpty ==
  /\ \A i \in Squares : IsLight(i) => board[i] = EMPTY
  /\ \A sq \in Yields : \A k \in 1..Len(sq) : ~IsLight(sq[k])

\* A piece has been captured in a game from a new Board, a call after it
\* has failed, and the side to move has moves.
C18_Witness ==
  /\ Cardinality({i \in Squares : board[i] # EMPTY}) < 24
  /\ last.called /\ last.raised
  /\ Yields # {}

\* The dark squares of a set of rows.
DarkOf(rows) == {i \in Squares : row(i) \in rows /\ ~IsLight(i)}

(***************************************************************************)
(* C19. A new Board is in the standard starting position: 12 black men on  *)
(* the dark squares of rows 0-2, 12 white men on the dark squares of rows  *)
(* 5-7, the two middle rows empty, no kings, white to move and the ply     *)
(* counter 0.                                                              *)
(***************************************************************************)
C19_NewBoard ==
  ~last.called =>
    /\ DOMAIN board = Squares
    /\ {i \in Squares : board[i] = BK_PIECE} = DarkOf(0..2)
    /\ {i \in Squares : board[i] = WH_PIECE} = DarkOf(5..7)
    /\ Cardinality(DarkOf(0..2)) = 12 /\ Cardinality(DarkOf(5..7)) = 12
    /\ \A i \in Squares \ (DarkOf(0..2) \cup DarkOf(5..7)) : board[i] = EMPTY
    /\ \A i \in Squares : ~_is_king(board[i])
    /\ turn = WHITE
    /\ half_moves = 0

\* The Board as its constructor leaves it, before any call of Board.move,
\* with a white man on a3 and a black man on b6.
C19_Witness ==
  /\ ~last.called
  /\ successes = 0
  /\ board[_to_i(0, 5)] = WH_PIECE
  /\ board[_to_i(1, 2)] = BK_PIECE

(***************************************************************************)
(* C20. Board state is mutated only through Board.move: every call of      *)
(* legal_moves, jumps, jumps_from, is_game_over and of the rendering,      *)
(* consumed to its end, leaves the grid, the turn flag and the ply counter *)
(* unchanged.                                                              *)
(***************************************************************************)
C20_OnlyMoveMutates ==
  [][observed'.op # "none" =>
       (board' = board /\ turn' = turn /\ half_moves' = half_moves)]_vars

\* jumps_from has been called, in a game from a new Board, for a piece
\* that has a capture, and its chains have been consumed.
C20_Witness ==
  /\ observed.op = "jumps_from"
  /\ observed.yielded # <<>>
  /\ lower(board[observed.square]) = PIECES(turn)
  /\ successes >= 2

\* The standard starting position as a grid.
StartGrid == [i \in Squares |-> _STARTING_BOARD[i + 1]]

(***************************************************************************)
(* C21. Cross-game isolation: a call of Board.move on one Board leaves the *)
(* grid, turn and ply counter of every other Board unchanged and leaves    *)
(* the list _STARTING_BOARD unchanged, so a Board made after any number of *)
(* moves in other games is in the standard starting position.              *)
(***************************************************************************)
C21_CrossGameIsolation ==
  [][/\ world'.lists[1] = world.lists[1]
     /\ world'.lists[1] = StartGrid
     /\ \A k \in 1..Len(world.boards) :
          world'.acted.game # k =>
            /\ Grid(world', k) = Grid(world, k)
            /\ world'.boards[k].turn = world.boards[k].turn
            /\ world'.boards[k]._half_moves = world.boards[k]._half_moves
     /\ world'.acted.op = "Board" =>
          /\ Grid(world', world'.acted.game) = StartGrid
          /\ world'.boards[world'.acted.game].turn = WHITE
          /\ world'.boards[world'.acted.game]._half_moves = 0]_vars

\* A second Board has just been made while the first is MaxGamePly moves
\* into its game.
C21_Witness ==
  /\ Len(world.boards) = 2
  /\ world.acted = [op |-> "Board", game |-> 2]
  /\ world.boards[1]._half_moves = MaxGamePly
  /\ Grid(world, 1) # StartGrid
  /\ Grid(world, 2) = StartGrid

\* The 64 coordinates of the board: a letter a-h and a digit 1-8.
Coordinates ==
  {<<x, y>> : x \in {"a", "b", "c", "d", "e", "f", "g", "h"},
              y \in {"1", "2", "3", "4", "5", "6", "7", "8"}}

(***************************************************************************)
(* C22. Geometry round trip: _i_to_xy and _xy_to_i are mutually inverse    *)
(* between the indices 0..63 and the 64 coordinates a-h x 1-8:             *)
(* _xy_to_i(_i_to_xy(i)) = i for every index in 0..63 and                  *)
(* _i_to_xy(_xy_to_i(c)) = c for every coordinate, with index 0 = a8 and   *)
(* index 63 = h1.                                                          *)
(***************************************************************************)
C22_GeometryRoundTrip ==
  /\ (probe.fn = "_i_to_xy" /\ probe.done /\ probe.i \in 0..63) =>
       /\ ~probe.raised
       /\ probe.xy \in Coordinates
       /\ _xy_to_i(probe.xy) = [raised |-> FALSE, value |-> probe.i]
       /\ probe.i = 0 => probe.xy = <<"a", "8">>
       /\ probe.i = 63 => probe.xy = <<"h", "1">>
  /\ (probe.fn = "_xy_to_i" /\ probe.done /\ probe.xy \in Coordinates) =>
       /\ ~probe.raised
       /\ probe.i \in 0..63
       /\ _i_to_xy(probe.i) = [raised |-> FALSE, value |-> probe.xy]
       /\ probe.xy = <<"a", "8">> => probe.i = 0
       /\ probe.xy = <<"h", "1">> => probe.i = 63

\* _xy_to_i has converted h1 to 63.
C22_Witness ==
  /\ probe.fn = "_xy_to_i" /\ probe.done /\ ~probe.raised
  /\ probe.xy = <<"h", "1">>
  /\ probe.i = 63

(***************************************************************************)
(* C23. Both conversions fail on out-of-board input: _xy_to_i raises for   *)
(* every text that is not a letter a-h followed by a digit 1-8, and        *)
(* _i_to_xy raises for every index outside 0..63, the negative ones        *)
(* included.                                                               *)
(***************************************************************************)
C23_FailLoudly ==
  /\ (probe.fn = "_xy_to_i" /\ probe.done /\ probe.xy \notin Coordinates) => probe.raised
  /\ (probe.fn = "_i_to_xy" /\ probe.done /\ probe.i \notin 0..63) => probe.raised

\* A move text that names a square off the board: one of its two-character
\* slices is not a coordinate.
HasOffBoard(move) ==
  \E k \in 1..Len(sliced2(move)) : sliced2(move)[k] \notin Coordinates

(***************************************************************************)
(* C24. When Board.move is given a move text with an out-of-board          *)
(* coordinate, it fails with the invalid-coordinate error of the geometry  *)
(* parsing step, raised before any lookup among the legal moves, and the   *)
(* board is not mutated.                                                   *)
(***************************************************************************)
C24_GeometryErrorFirst ==
  (last.called /\ HasOffBoard(last.move)) =>
    /\ last.raised
    /\ last.error = "_xy_to_i"
    /\ board = last.board /\ turn = last.turn /\ half_moves = last.half_moves

\* The playable squares: the indices 0..63 whose row+column is odd.
Playable == {i \in Squares : ~IsLight(i)}

\* The table a trial looks in.
TableOf(fn) == IF fn = "_MOVES" THEN _MOVES ELSE _CAPTURES

\* A trial that has looked up a table at a playable square.
LookedUp == probe.fn \in {"_MOVES", "_CAPTURES"} /\ probe.done /\ probe.i \in Playable

(***************************************************************************)
(* C25. King tables are the per-square union of the two men's tables: at   *)
(* every playable square the king entry of _MOVES and of _CAPTURES holds   *)
(* exactly the elements of the white man's entry and of the black man's    *)
(* entry there, none twice, and the black king's and the white king's      *)
(* tables are the same.                                                    *)
(***************************************************************************)
C25_KingTables ==
  (LookedUp /\ _is_king(probe.kind)) =>
    LET T == TableOf(probe.fn)
        wh == T[WH_PIECE][probe.i]
        bk == T[BK_PIECE][probe.i]
    IN /\ ~probe.raised
       /\ Range(probe.entry) = Range(wh) \cup Range(bk)
       /\ Len(probe.entry) = Cardinality(Range(probe.entry))
       /\ Len(probe.entry) = Len(wh) + Len(bk)
       /\ T[BK_KING] = T[WH_KING]

\* The capture entry of a king has been looked up at a square from which
\* jumps lead in all four directions.
C25_Witness ==
  /\ LookedUp /\ probe.fn = "_CAPTURES" /\ probe.kind = BK_KING
  /\ Len(probe.entry) = 4
  /\ Len(_CAPTURES[WH_PIECE][probe.i]) = 2
  /\ Len(_CAPTURES[BK_PIECE][probe.i]) = 2

\* The index of column x and row y, and whether they are on the board.
IndexOf(x, y) == 8 * y + x
OnBoard(x, y) == x \in 0..7 /\ y \in 0..7

\* The direction of a man: +1 for black, -1 for white.
Dy(kind) == IF kind = BK_PIECE THEN 1 ELSE -1

\* The squares an entry of a table names.
SquaresIn(fn, entry) ==
  IF fn = "_MOVES" THEN Range(entry)
  ELSE UNION {{c[1], c[2]} : c \in Range(entry)}

(***************************************************************************)
(* C26. Table contents: at every playable square (x, y) a man's simple-move *)
(* entry is exactly the on-board squares among (x-1, y+dy) and (x+1, y+dy) *)
(* and its capture entry exactly the pairs ((x+dx, y+dy), (x+2dx, y+2dy))  *)
(* for dx in {-1, +1} with both squares on the board, dy being +1 for      *)
(* black and -1 for white; every square in any entry is a dark square in   *)
(* 0..63; a man has at most 2 elements of each kind and a king at most 4.  *)
(***************************************************************************)
C26_TableContents ==
  /\ (LookedUp /\ ~_is_king(probe.kind)) =>
       LET x == col(probe.i)
           y == row(probe.i)
           dy == Dy(probe.kind)
       IN /\ ~probe.raised
          /\ Len(probe.entry) = Cardinality(Range(probe.entry))
          /\ Len(probe.entry) <= 2
          /\ probe.fn = "_MOVES" =>
               Range(probe.entry) =
                 {IndexOf(x + dx, y + dy) : dx \in {d \in {-1, 1} : OnBoard(x + d, y + dy)}}
          /\ probe.fn = "_CAPTURES" =>
               Range(probe.entry) =
                 {<<IndexOf(x + dx, y + dy), IndexOf(x + 2 * dx, y + 2 * dy)>> :
                    dx \in {d \in {-1, 1} : OnBoard(x + d, y + dy)
                                              /\ OnBoard(x + 2 * d, y + 2 * dy)}}
  /\ (LookedUp /\ _is_king(probe.kind)) => Len(probe.entry) <= 4
  /\ (probe.fn \in {"_MOVES", "_CAPTURES"} /\ probe.done) =>
       SquaresIn(probe.fn, probe.entry) \subseteq Playable

\* The capture entry of a white man has been looked up at a square on the
\* edge of the board, where one of the two jumps would leave the board.
C26_Witness ==
  /\ LookedUp /\ probe.fn = "_CAPTURES" /\ probe.kind = WH_PIECE
  /\ col(probe.i) = 0
  /\ Len(probe.entry) = 1

\* C27: the tables are constant after construction. Whatever legal_moves,
\* jumps_from, is_game_over and move calls have been made on however many
\* Boards, _MOVES and _CAPTURES hold the entries _make_dict gave them at
\* import, which are computed from the squares alone and from no Board.
C27_TablesConstant ==
  /\ world._MOVES = _MOVES
  /\ world._CAPTURES = _CAPTURES

\* A jump search on the second Board has gone through a nonempty list of
\* _CAPTURES after a move on the first Board changed that Board.
C27_Witness ==
  /\ Len(world.boards) = 2
  /\ world.boards[1]._half_moves >= 1
  /\ Grid(world, 1) # Grid(world, 2)
  /\ world.acted = [op |-> "jumps_from", game |-> 2]
  /\ observed.op = "jumps_from"
  /\ world._CAPTURES[Grid(world, 2)[observed.square]][observed.square] # <<>>

\* C28: men move and capture toward the other side only. In every move
\* legal_moves yields for a white man each square lies on a row of
\* strictly smaller index than the square before it, and for a black man
\* of strictly larger index; a yielded move with a step the other way is
\* a king's.
C28_MenForward ==
  \A sq \in Yields :
    \A n \in 1..(Len(sq) - 1) :
      /\ board[sq[1]] = WH_PIECE => row(sq[n + 1]) < row(sq[n])
      /\ board[sq[1]] = BK_PIECE => row(sq[n + 1]) > row(sq[n])
      /\ (IF turn = WHITE THEN row(sq[n + 1]) > row(sq[n])
                          ELSE row(sq[n + 1]) < row(sq[n]))
           => board[sq[1]] \in {BK_KING, WH_KING}

\* A man is yielded a chain of two jumps while an opponent piece it could
\* jump backward stands behind it with an empty square beyond.
C28_Witness ==
  \E sq \in Yields :
    /\ board[sq[1]] \in {BK_PIECE, WH_PIECE}
    /\ Len(sq) = 3
    /\ \E c \in Range(_CAPTURES[WH_KING][sq[1]]) :
         /\ (row(c[2]) - row(sq[1])) * Dy(board[sq[1]]) < 0
         /\ lower(board[c[1]]) = PIECES(~turn)
         /\ board[c[2]] = EMPTY

\* The game is over for the side to move.
NoMoveLeft == is_game_over(board, turn)

\* C29: no-move loss. When the test of the turn loop finds that the side to
\* move has no legal move, the loop ends with the status END; the display
\* run() sends for the status END says '{user} wins!' of the player who is
\* not to move, who is the player that made the last move of the session,
\* and no status has a header that reports a draw.
C29_NoMoveLoss ==
  /\ [][(session.pc = "test" /\ NoMoveLeft)
          => (session'._status = "END" /\ session'.pc = "returned")]_vars
  /\ [](session._status = "END" => NoMoveLeft /\ session.pc \in {"returned", "sent"})
  /\ []((session.pc = "sent" /\ session._status = "END")
          => /\ session._display.header = "{user} wins!"
             /\ session._display.user = Player(session._players, ~turn)
             /\ session._display.user # current(session, turn)
             /\ session.mover # "" => session._display.user = session.mover)

\* A finished session whose last move, by the player of the black pieces,
\* left the white pieces that remain without a move.
C29_Witness ==
  /\ session.pc = "sent"
  /\ session._status = "END"
  /\ session.mover = Player(session._players, BLACK)
  /\ turn = WHITE
  /\ last.called /\ ~last.raised
  /\ _find_all_pieces(board, PIECES(turn)) # <<>>

\* C30: the cutoff of the chain search is keyed on the promotion row. For
\* every jump of every chain yielded for a man, the search stopped at that
\* jump without looking for continuations exactly when the square the jump
\* leaves from lies on the row where Board.move crowns a man of the side
\* to move (row 0 for white, row 7 for black).
C30_CutoffOnPromotionRow ==
  \A sq \in Yields :
    (IsChain(sq) /\ ~_is_king(board[sq[1]]))
      => \A n \in 1..(Len(sq) - 1) :
           (JumpVerdict(board, turn, _is_king(board[sq[n]]), sq[n],
                        Overs(SubSeq(sq, 1, n)), Mid(sq[n], sq[n + 1]), sq[n + 1]) = "last")
             <=> (row(sq[n]) = PromotionRow(turn))

\* C31: one chain search keeps the kind of the piece that started it. Every
\* jump of every yielded chain is a pair of the capture table of the piece
\* on the origin square, and at every jump the cutoff test comes out as it
\* does with the man or king status of that piece.
C31_MidChainKind ==
  \A sq \in Yields :
    IsChain(sq)
      => \A n \in 1..(Len(sq) - 1) :
           /\ <<Mid(sq[n], sq[n + 1]), sq[n + 1]>> \in Range(_CAPTURES[board[sq[1]]][sq[n]])
           /\ JumpVerdict(board, turn, _is_king(board[sq[n]]), sq[n],
                          Overs(SubSeq(sq, 1, n)), Mid(sq[n], sq[n + 1]), sq[n + 1])
                = JumpVerdict(board, turn, _is_king(board[sq[1]]), sq[n],
                              Overs(SubSeq(sq, 1, n)), Mid(sq[n], sq[n + 1]), sq[n + 1])

\* The square tuples jump_helper yields for all pieces of the side to move,
\* in the order jumps goes through them.
ChainsOf(b, t) ==
  LET pieces == _find_all_pieces(b, PIECES(t))
  IN Flatten([k \in 1..Len(pieces) |-> jump_chains(b, t, pieces[k])])

\* C32: legal_moves yields each move once. The sequence of move strings it
\* yields has no duplicates, two yielded moves are equal exactly when the
\* lists of squares they are read as are equal, and two yielded jumps are
\* equal exactly when the square tuples they were joined from are equal.
C32_EachMoveOnce ==
  LET ms == legal_moves(board, turn)
      chains == ChainsOf(board, turn)
  IN /\ \A j, k \in 1..Len(ms) :
          /\ (ms[j] = ms[k]) <=> (j = k)
          /\ (ms[j] = ms[k]) <=> (SquaresOf(ms[j]) = SquaresOf(ms[k]))
     /\ \A j, k \in 1..Len(chains) :
          /\ (JoinSquares(chains[j]) = JoinSquares(chains[k])) <=> (chains[j] = chains[k])
          /\ (chains[j] = chains[k]) <=> (j = k)

\* Two chains are yielded that start with the same jump and part later.
C32_Witness ==
  LET chains == ChainsOf(board, turn)
  IN \E j, k \in 1..Len(chains) :
       /\ j # k
       /\ Len(chains[j]) >= 3 /\ Len(chains[k]) >= 3
       /\ SubSeq(chains[j], 1, 2) = SubSeq(chains[k], 1, 2)
       /\ legal_moves(board, turn)[j] # legal_moves(board, turn)[k]

\* The number of pieces of one colour on a grid, men and kings.
Count(b, colour) == Cardinality({i \in Squares : lower(b[i]) = colour})

\* C33: piece conservation. A successful Board.move leaves the number of
\* pieces of the side that moved and takes from the other side as many
\* pieces as the move has jumps, none for a step; neither side ever has
\* more than 12 pieces.
C33_PieceConservation ==
  /\ Count(board, WH_PIECE) <= 12
  /\ Count(board, BK_PIECE) <= 12
  /\ (last.called /\ ~last.raised) =>
       LET sq == SquaresOf(last.move)
           njumps == IF IsChain(sq) THEN Len(sq) - 1 ELSE 0
       IN /\ Count(board, PIECES(last.turn)) = Count(last.board, PIECES(last.turn))
          /\ Count(board, PIECES(~last.turn)) = Count(last.board, PIECES(~last.turn)) - njumps

\* A chain of two or more jumps has been played and pieces of the other
\* side are left.
C33_Witness ==
  /\ last.called /\ ~last.raised
  /\ IsChain(SquaresOf(last.move))
  /\ Len(SquaresOf(last.move)) >= 3
  /\ Count(board, PIECES(~last.turn)) >= 1

\* C34: no man stands on the row where it is crowned. In every state of a
\* game there is no white man on row index 0 and no black man on row
\* index 7.
C34_NoManOnPromotionRow ==
  \A i \in Squares :
    /\ board[i] = WH_PIECE => row(i) # PromotionRow(WHITE)
    /\ board[i] = BK_PIECE => row(i) # PromotionRow(BLACK)

\* A man has just moved onto the row where it is crowned.
C34_Witness ==
  /\ last.called /\ ~last.raised
  /\ ~_is_king(last.board[SquaresOf(last.move)[1]])
  /\ row(LastSquare(last.move)) = PromotionRow(last.turn)
  /\ _is_king(board[LastSquare(last.move)])

\* C35: the origin square stays occupied for the whole chain search. No
\* chain legal_moves yields has its first square again at a later place,
\* also not the chain of a king that a further jump would bring back to
\* where it started.
C35_OriginStaysOccupied ==
  \A sq \in Yields : \A k \in 2..Len(sq) : sq[k] # sq[1]

\* A king's chain of three jumps ends where a fourth jump, over an opponent
\* piece the chain has not captured, would land on the origin square.
C35_Witness ==
  \E sq \in Yields :
    /\ IsChain(sq) /\ Len(sq) = 4
    /\ _is_king(board[sq[1]])
    /\ \E c \in Range(_CAPTURES[board[sq[1]]][sq[4]]) :
         /\ c[2] = sq[1]
         /\ lower(board[c[1]]) = PIECES(~turn)
         /\ c[1] \notin Overs(sq)

IsStopQuit(content) ==
  str_lower(content) \in {<<"s", "t", "o", "p">>, <<"q", "u", "i", "t">>}
IsLegalText(content, b, t) ==
  /\ content # <<>>
  /\ content[1] \notin Whitespace
  /\ join_split(str_lower(content)) \in Range(legal_moves(b, t))

\* C37: only a message of the player to move, sent in the channel of the
\* game, changes the Board or the status. A message of anybody else or in
\* another channel, and a message of the player to move that is neither
\* 'stop'/'quit' nor a legal move, leaves the grid, the side to move, the
\* ply counter and the status as they were, and the wait goes on.
C37_OnlyCurrentPlayerActs ==
  [][session'.input # NoInput =>
       LET m == session'.input
           mine == m.author = current(session, turn) /\ m.channel = ctx_channel
           effect == \/ board' # board \/ turn' # turn \/ half_moves' # half_moves
                     \/ session'._status # session._status
       IN /\ effect => mine
          /\ (~mine \/ (~IsStopQuit(m.content) /\ ~IsLegalText(m.content, board, turn)))
               => (~effect /\ ~m.accepted /\ session'.pc = "wait")
          /\ m.accepted => (mine /\ session'.pc = "resumed")]_vars

\* The player who is not to move has sent a legal move in the channel of
\* the game, and the wait goes on.
C37_Witness ==
  /\ session.pc = "wait"
  /\ session.input.author = Player(session._players, ~turn)
  /\ session.input.channel = ctx_channel
  /\ session.input.content \in Range(legal_moves(board, turn))
  /\ ~session.input.accepted

\* _loop has returned.
LoopOver == session.pc \in {"returned", "sent"}

\* C38: the outcomes of the turn loop. _loop returns with exactly one of
\* TIMEOUT, QUIT and END and keeps PLAYING until then: TIMEOUT is set by a
\* wait that times out, QUIT by 'stop' or 'quit' of the player to move, END
\* at the test of the loop when the game is over, and the loop has ended
\* with END exactly when the game is over for the side to move. An accepted
\* move applies one ply and an accepted 'stop'/'quit' none; once QUIT or
\* TIMEOUT is set the Board stays as it is, and the display that is sent
\* names the player to move with the header of that status.
C38_LoopOutcomes ==
  /\ [](LoopOver => session._status \in {"TIMEOUT", "QUIT", "END"})
  /\ [](session.pc \in {"test", "wait"} => session._status = "PLAYING")
  /\ [](LoopOver => (session._status = "END" <=> NoMoveLeft))
  /\ []((session.pc = "sent" /\ session._status \in {"QUIT", "TIMEOUT"})
          => /\ session._display.user = current(session, turn)
             /\ session._display.header = _MESSAGES[session._status])
  /\ [][/\ (session'._status = "TIMEOUT" /\ session._status # "TIMEOUT")
             => (session.pc = "wait" /\ session'.input = NoInput /\ session'.pc = "returned")
        /\ (session'._status = "QUIT" /\ session._status # "QUIT")
             => /\ session.pc = "wait"
                /\ session'.input.accepted
                /\ session'.input.author = current(session, turn)
                /\ IsStopQuit(session'.input.content)
        /\ (session'._status = "END" /\ session._status # "END")
             => (session.pc = "test" /\ NoMoveLeft /\ session'.pc = "returned")
        /\ session'.input.accepted
             => IF IsStopQuit(session'.input.content)
                  THEN /\ session'._status = "QUIT"
                       /\ board' = board /\ turn' = turn /\ half_moves' = half_moves
                  ELSE /\ session'._status = "PLAYING"
                       /\ half_moves' = half_moves + 1 /\ turn' = ~turn
        /\ (session.pc = "resumed" /\ session._status = "QUIT") => session'.pc = "returned"
        /\ session._status \in {"QUIT", "TIMEOUT"}
             => (board' = board /\ turn' = turn /\ half_moves' = half_moves
                   /\ session'._status = session._status)]_vars

\* A session has ended with QUIT after MaxSessPly accepted moves: the
\* display names the player to move, who is not the player that moved
\* last, as the one who forfeited.
C38_Witness ==
  /\ session.pc = "sent"
  /\ session._status = "QUIT"
  /\ successes = MaxSessPly
  /\ session._display.user = Player(session._players, turn)
  /\ session._display.user # session.mover

\* C39: the tables are keyed by the 32 playable squares. For every piece
\* kind a lookup in _MOVES or _CAPTURES finds an entry exactly when the key
\* is an index in 0..63 whose row and column add up to an odd number.
C39_KeysArePlayable ==
  (probe.fn \in {"_MOVES", "_CAPTURES"} /\ probe.done) =>
    (~probe.raised <=> probe.i \in Playable)

====
